---------------------------- MODULE Spec2Model ----------------------------
(***************************************************************************)
(* Model of the infusion path calculator (src/infusion/__init__.py).       *)
(*                                                                         *)
(* Item, Path.infuse, Path and Paths are pure constructions over their     *)
(* arguments.  A specification draws the arguments of one call (args) and  *)
(* its actions perform the call: Item, Path.infuse and Path in one step,   *)
(* Paths statement by statement.                                           *)
(*                                                                         *)
(* Strings are sequences of one-character strings.  Python floats are      *)
(* binary64 values, kept as bit sequences (least significant bit first).   *)
(***************************************************************************)
EXTENDS Integers, Sequences, FiniteSets

VARIABLES
    pc,     \* where the call stands: a label of the code, "returned", "raised"
    args,   \* the arguments of the call
    self,   \* the object under construction (for infuse: the Item returned)
    exc,    \* the exception raised, if any
    runs    \* SpecPair: the outcomes of the calls already finished

vars == <<pc, args, self, exc, runs>>

(***************************************************************************)
(* Bounds of the model.                                                    *)
(***************************************************************************)
\* Longest token given to Item in SpecItem.
MaxTokLen == 3
\* Greatest light of the two items given to Path.infuse in SpecInfuse.
MaxLight == 50
\* Greatest light and longest chain given to Path in SpecPath.
MaxStepLight == 10
MaxSteps == 3
\* Most ITEM arguments on the command line in Spec, and in SpecPair.
MaxItems == 3
MaxPairItems == 2

(***************************************************************************)
(* Generic helpers.                                                        *)
(***************************************************************************)
Range(s) == {s[i] : i \in DOMAIN s}

SeqsUpTo(S, n) == UNION {[1..k -> S] : k \in 0..n}

\* The sequences that list every element of the finite set S exactly once.
Orders(S) == {o \in [1..Cardinality(S) -> S] : Range(o) = S}

RECURSIVE Pow2(_)
Pow2(n) == IF n = 0 THEN 1 ELSE 2 * Pow2(n - 1)

(***************************************************************************)
(* class Quality                                                           *)
(***************************************************************************)
rare == 1
legendary == 2
exotic == 3

Qualities == {rare, legendary, exotic}

(***************************************************************************)
(* Python's int(str), base 10: surrounding whitespace is stripped, one     *)
(* sign is allowed, and the rest is decimal digits in which single         *)
(* underscores may stand between two digits.                               *)
(***************************************************************************)
DigitChars == {"0", "1", "2", "3", "4", "5", "6", "7", "8", "9"}

DigitVal(c) ==
    CASE c = "0" -> 0 [] c = "1" -> 1 [] c = "2" -> 2 [] c = "3" -> 3
      [] c = "4" -> 4 [] c = "5" -> 5 [] c = "6" -> 6 [] c = "7" -> 7
      [] c = "8" -> 8 [] c = "9" -> 9

RECURSIVE LStrip(_)
LStrip(s) == IF s # <<>> /\ s[1] = " " THEN LStrip(Tail(s)) ELSE s

RECURSIVE RStrip(_)
RStrip(s) ==
    IF s # <<>> /\ s[Len(s)] = " " THEN RStrip(SubSeq(s, 1, Len(s) - 1)) ELSE s

Strip(s) == RStrip(LStrip(s))

\* Digits with single underscores between them, and nothing else.
IsDigitString(s) ==
    /\ s # <<>>
    /\ \A i \in DOMAIN s : s[i] \in DigitChars \cup {"_"}
    /\ \A i \in DOMAIN s :
          s[i] = "_" => /\ i > 1 /\ i < Len(s)
                        /\ s[i - 1] \in DigitChars /\ s[i + 1] \in DigitChars

RECURSIVE DecimalValue(_, _)
DecimalValue(s, acc) ==
    IF s = <<>> THEN acc
    ELSE IF s[1] = "_" THEN DecimalValue(Tail(s), acc)
    ELSE DecimalValue(Tail(s), 10 * acc + DigitVal(s[1]))

\* [ok |-> TRUE, val |-> n], or [ok |-> FALSE] for a ValueError.
PyInt(s) ==
    LET t == Strip(s)
        signed == t # <<>> /\ t[1] \in {"+", "-"}
        body == IF signed THEN Tail(t) ELSE t
    IN  IF IsDigitString(body)
        THEN [ok |-> TRUE,
              val |-> IF signed /\ t[1] = "-" THEN 0 - DecimalValue(body, 0)
                      ELSE DecimalValue(body, 0)]
        ELSE [ok |-> FALSE]

\* str(e).split()[-1] of int()'s ValueError, whose text ends with repr(s):
\* the part of 's' (in quotes) that follows its last blank.
RECURSIVE LastWord(_)
LastWord(s) ==
    IF \E i \in DOMAIN s : s[i] = " "
    THEN LastWord(Tail(s))
    ELSE s

Repr(s) == <<"'">> \o s \o <<"'">>

(***************************************************************************)
(* class Item                                                              *)
(***************************************************************************)
\* Item(light, quality): the shortcut taken when a quality flag is given.
ItemOf(light, quality) == [light |-> light, quality |-> quality]

\* The quality flag read from the token's first character.
PrefixQuality(item) ==
    IF item[1] = "+" THEN exotic
    ELSE IF item[1] = "-" THEN rare
    ELSE legendary

\* Item(token): [item |-> an Item] when the construction returns, and
\* [raised |-> the exception] when it raises.
Item(item) ==
    IF item = <<>>
    THEN [raised |-> [type |-> "IndexError", offending |-> <<>>]]
    ELSE LET quality == PrefixQuality(item)
             text == IF quality # legendary THEN Tail(item) ELSE item
             n == PyInt(text)
         IN  IF n.ok
             THEN [item |-> ItemOf(n.val, quality)]
             ELSE [raised |-> [type |-> "Invalid item",
                               offending |-> LastWord(Repr(text))]]

Raised(r) == "raised" \in DOMAIN r

(***************************************************************************)
(* Python floats.  A binary64 value is mant * 2^exp, mant a sequence of at *)
(* most 53 bits, least significant first.  The literals 0.7 and 0.8 are    *)
(* the doubles 0x1.6666666666666p-1 and 0x1.999999999999ap-1.              *)
(***************************************************************************)
MantBits == 53

\* 0x16666666666666: thirteen nibbles 0110 below a leading 1.
Float07 ==
    [mant |-> [i \in 1..MantBits |->
                  IF i = MantBits \/ (i - 1) % 4 \in {1, 2} THEN 1 ELSE 0],
     exp |-> 0 - MantBits]

\* 0x1999999999999A: the nibble 1010, twelve nibbles 1001, a leading 1.
Float08 ==
    [mant |-> [i \in 1..MantBits |->
                  IF i = MantBits THEN 1
                  ELSE IF i <= 4 THEN (IF (i - 1) % 4 \in {1, 3} THEN 1 ELSE 0)
                  ELSE IF (i - 1) % 4 \in {0, 3} THEN 1 ELSE 0],
     exp |-> 0 - MantBits]

RECURSIVE NatBits(_)
NatBits(n) == IF n = 0 THEN <<>> ELSE <<n % 2>> \o NatBits(n \div 2)

RECURSIVE BitsVal(_)
BitsVal(bits) == IF bits = <<>> THEN 0 ELSE bits[1] + 2 * BitsVal(Tail(bits))

\* The exact product of a bit sequence and a natural number d.
RECURSIVE MulBits(_, _, _)
MulBits(bits, d, carry) ==
    IF bits = <<>> THEN NatBits(carry)
    ELSE LET t == bits[1] * d + carry
         IN  <<t % 2>> \o MulBits(Tail(bits), d, t \div 2)

RECURSIVE IncBits(_)
IncBits(bits) ==
    IF bits = <<>> THEN <<1>>
    ELSE IF bits[1] = 0 THEN <<1>> \o Tail(bits)
    ELSE <<0>> \o IncBits(Tail(bits))

\* Round-to-nearest, ties-to-even, of the exact value bits * 2^exp to a
\* double (IEEE 754 default rounding of every float operation).
RoundToDouble(bits, exp) ==
    IF Len(bits) <= MantBits THEN [mant |-> bits, exp |-> exp]
    ELSE LET s == Len(bits) - MantBits
             kept == SubSeq(bits, s + 1, Len(bits))
             sticky == \E i \in 1..(s - 1) : bits[i] = 1
             up == bits[s] = 1 /\ (sticky \/ kept[1] = 1)
             m == IF up THEN IncBits(kept) ELSE kept
         IN  IF Len(m) > MantBits
             THEN [mant |-> Tail(m), exp |-> exp + s + 1]
             ELSE [mant |-> m, exp |-> exp + s]

\* diff * perc for an int diff >= 0 (exactly a double) and a double perc.
FloatMul(diff, perc) == RoundToDouble(MulBits(perc.mant, diff, 0), perc.exp)

\* round(x) of a float x >= 0 with no ndigits: the nearest int, an exact
\* half going to the even neighbour.
PyRound(x) ==
    IF x.exp >= 0 THEN BitsVal(x.mant) * Pow2(x.exp)
    ELSE LET f == 0 - x.exp
             n == IF f >= Len(x.mant) THEN 0
                  ELSE BitsVal(SubSeq(x.mant, f + 1, Len(x.mant)))
             half == f <= Len(x.mant) /\ x.mant[f] = 1
             sticky == \E i \in 1..(f - 1) : i <= Len(x.mant) /\ x.mant[i] = 1
         IN  IF half /\ (sticky \/ n % 2 = 1) THEN n + 1 ELSE n

(***************************************************************************)
(* class Path                                                              *)
(***************************************************************************)
COST == 3

\* Path.infuse, line 81: the close light range.
CloseRange(base, target) ==
    (6 - (IF base.quality = exotic THEN 2 ELSE 0))
       + (IF target.quality = exotic THEN 1 ELSE 0)

\* Path.infuse, line 86: the far light percentage.
FarPercentage(base) == IF base.quality = exotic THEN Float07 ELSE Float08

\* Path.infuse, line 90: the no-penalty branch returns the target object.
NoPenalty(base, target) == target

\* Path.infuse, line 94: the penalty branch builds a new Item.
Penalty(base, target) ==
    ItemOf(base.light
             + PyRound(FloatMul(target.light - base.light, FarPercentage(base))),
           base.quality)

infuse(base, target) ==
    LET diff == target.light - base.light
        comp == CloseRange(base, target)
    IN  IF diff <= comp THEN NoPenalty(base, target) ELSE Penalty(base, target)

\* functools.reduce(Path.infuse, steps[k..]) started from acc.
RECURSIVE Reduce(_, _)
Reduce(acc, rest) ==
    IF rest = <<>> THEN acc ELSE Reduce(infuse(acc, rest[1]), Tail(rest))

\* Path(steps), for steps of at least one item.
Path(steps) ==
    LET item == Reduce(steps[1], Tail(steps))
    IN  [steps |-> steps,
         cost |-> (Len(steps) - 1) * COST,
         item |-> item,
         light |-> item.light]

(***************************************************************************)
(* class Paths                                                             *)
(***************************************************************************)
\* sorted(s, key=lambda x: x.light).  sorted is stable: the element at
\* position i goes behind the lesser ones and the equal ones before it.
Rank(s, i) ==
    1 + Cardinality({j \in 1..Len(s) :
                        \/ s[j].light < s[i].light
                        \/ s[j].light = s[i].light /\ j < i})

SortedByLight(s) ==
    [p \in 1..Len(s) |-> s[CHOOSE i \in 1..Len(s) : Rank(s, i) = p]]

\* map(Item, tokens), consumed in order: the Items, or the first exception.
RECURSIVE MapItem(_)
MapItem(tokens) ==
    IF tokens = <<>> THEN [items |-> <<>>]
    ELSE LET first == Item(tokens[1])
         IN  IF Raised(first) THEN first
             ELSE LET rest == MapItem(Tail(tokens))
                  IN  IF Raised(rest) THEN rest
                      ELSE [items |-> <<first.item>> \o rest.items]

\* Keep with the comparison weakened: an item as light as the base stays.
KeepFromBase(item, base) == item.light >= base.light

\* The condition of uniquify's list comprehension, line 154.
Keep(item, base) == item.light > base.light

RECURSIVE Filter(_, _)
Filter(s, base) ==
    IF s = <<>> THEN <<>>
    ELSE IF Keep(s[1], base) THEN <<s[1]>> \o Filter(Tail(s), base)
    ELSE Filter(Tail(s), base)

\* Paths.uniquify(base, items); 'order' is the order in which set(items)
\* is iterated, which Python leaves open for a set of strings.
uniquify(base, order) ==
    LET parsed == MapItem(order)
    IN  IF Raised(parsed) THEN parsed
        ELSE LET unique == Filter(SortedByLight(parsed.items), base)
             IN  IF Len(unique) = 0
                 THEN [raised |-> [type |-> "Base item is highest light level",
                                   offending |-> <<>>]]
                 ELSE [items |-> unique]

\* list(itertools.combinations(s, l)): the l-element selections of s by
\* position, in lexicographic order of the positions.
RECURSIVE Combinations(_, _)
Combinations(s, l) ==
    IF l = 0 THEN << <<>> >>
    ELSE IF Len(s) < l THEN <<>>
    ELSE [i \in 1..Len(Combinations(Tail(s), l - 1)) |->
             <<s[1]>> \o Combinations(Tail(s), l - 1)[i]]
         \o Combinations(Tail(s), l)

\* The chains permutate appends for the sublist sizes l..last.
RECURSIVE PermsFrom(_, _, _, _, _)
PermsFrom(low, mid, high, l, last) ==
    IF l > last THEN <<>>
    ELSE [i \in 1..Len(Combinations(mid, l)) |->
             <<low>> \o Combinations(mid, l)[i] \o <<high>>]
         \o PermsFrom(low, mid, high, l + 1, last)

\* permutate with range(1, len(mid)): the full sublist is never taken.
permutateShort(low, mid, high) ==
    << <<low, high>> >> \o PermsFrom(low, mid, high, 1, Len(mid) - 1)

\* Paths.permutate(low, mid, high)
permutate(low, mid, high) ==
    << <<low, high>> >> \o PermsFrom(low, mid, high, 1, Len(mid))

\* BetterLight with >= for >, and so without its tie-break.
BetterLightOrEqual(path, best) == path.light >= best.light

\* Line 135: the path replaces best_light.
BetterLight(path, best) ==
    \/ path.light > best.light
    \/ path.light = best.light /\ path.cost < best.cost

\* LesserCost with the cost comparison turned round.
GreaterCost(path, least) ==
    \/ path.cost > least.cost
    \/ path.cost = least.cost /\ path.light > least.light

\* Line 142: the path replaces least_cost.
LesserCost(path, least) ==
    \/ path.cost < least.cost
    \/ path.cost = least.cost /\ path.light > least.light

(***************************************************************************)
(* Arguments, and the states of a call.                                    *)
(***************************************************************************)
None == [none |-> TRUE]

\* A Paths object before __init__ has set anything; perms and k are the
\* locals of __init__ (k: the position of the loop of line 133).
Blank ==
    [base |-> None, items |-> <<>>, target |-> None, others |-> <<>>,
     perms |-> <<>>, paths |-> <<>>, best_light |-> None,
     least_cost |-> None, k |-> 0]

Finished == pc \in {"returned", "raised"}

\* SpecItem: every token of at most MaxTokLen of these characters.
TokenChars == {"+", "-", "0", "1", "x", " ", "_"}

\* Spec and SpecPair: BASE and ITEM are a sigil before a numeral, or "x".
Sigils == <<<<>>, <<"+">>, <<"-">>>>
Numerals == <<<<"0">>, <<"1">>, <<"0", "1">>, <<"1", "0">>>>
TokenList ==
    [i \in 1..(Len(Sigils) * Len(Numerals)) |->
        Sigils[((i - 1) \div Len(Numerals)) + 1]
          \o Numerals[((i - 1) % Len(Numerals)) + 1]]
      \o << <<"x">> >>
Tokens == Range(TokenList)

TokenIndex(t) == CHOOSE i \in DOMAIN TokenList : TokenList[i] = t

\* Paths reads items only through set(items), line 152.  Spec draws one
\* list for each set of at most MaxItems tokens; SpecPair draws every list.
ItemLists ==
    {l \in SeqsUpTo(Tokens, MaxItems) \ {<<>>} :
        \A i \in 1..(Len(l) - 1) : TokenIndex(l[i]) < TokenIndex(l[i + 1])}

ItemValues(maxLight) ==
    {ItemOf(l, q) : l \in 0..maxLight, q \in Qualities}

NonDecreasing(steps) ==
    \A i \in 1..(Len(steps) - 1) : steps[i].light <= steps[i + 1].light

(***************************************************************************)
(* SpecItem: one call Item(token).                                         *)
(***************************************************************************)
InitItem ==
    /\ pc = "Item"
    /\ args \in SeqsUpTo(TokenChars, MaxTokLen)
    /\ self = None
    /\ exc = None
    /\ runs = <<>>

CallItem ==
    /\ pc = "Item"
    /\ \E r \in {Item(args)} :
          IF Raised(r)
          THEN pc' = "raised" /\ exc' = r.raised /\ UNCHANGED self
          ELSE pc' = "returned" /\ self' = r.item /\ UNCHANGED exc
    /\ UNCHANGED <<args, runs>>

SpecItem == InitItem /\ [][CallItem]_vars

(***************************************************************************)
(* SpecInfuse: one call Path.infuse(base, target).                         *)
(***************************************************************************)
InitInfuse ==
    /\ pc = "infuse"
    /\ args \in [base : ItemValues(MaxLight), target : ItemValues(MaxLight)]
    /\ self = None
    /\ exc = None
    /\ runs = <<>>

CallInfuse ==
    /\ pc = "infuse"
    /\ self' = infuse(args.base, args.target)
    /\ pc' = "returned"
    /\ UNCHANGED <<args, exc, runs>>

SpecInfuse == InitInfuse /\ [][CallInfuse]_vars

(***************************************************************************)
(* SpecPath: one call Path(steps).                                         *)
(***************************************************************************)
InitPath ==
    /\ pc = "Path"
    /\ args \in {steps \in SeqsUpTo(ItemValues(MaxStepLight), MaxSteps) :
                    Len(steps) >= 2 /\ NonDecreasing(steps)}
    /\ self = None
    /\ exc = None
    /\ runs = <<>>

CallPath ==
    /\ pc = "Path"
    /\ self' = Path(args)
    /\ pc' = "returned"
    /\ UNCHANGED <<args, exc, runs>>

SpecPath == InitPath /\ [][CallPath]_vars

(***************************************************************************)
(* Paths.__init__(self, base, items), statement by statement.              *)
(***************************************************************************)
\* Line 113: self.base = Item(base)
NewBase ==
    /\ pc = "Paths"
    /\ \E b \in {Item(args.base)} :
          IF Raised(b)
          THEN pc' = "raised" /\ exc' = b.raised /\ UNCHANGED self
          ELSE /\ pc' = "uniquify"
               /\ self' = [self EXCEPT !.base = b.item]
               /\ UNCHANGED exc
    /\ UNCHANGED <<args, runs>>

\* Line 116: self.items = Paths.uniquify(self.base, items)
Uniquify ==
    /\ pc = "uniquify"
    /\ \E order \in Orders(Range(args.items)) :
          \E u \in {uniquify(self.base, order)} :
             IF Raised(u)
             THEN pc' = "raised" /\ exc' = u.raised /\ UNCHANGED self
             ELSE /\ pc' = "permutate"
                  /\ self' = [self EXCEPT !.items = u.items]
                  /\ UNCHANGED exc
    /\ UNCHANGED <<args, runs>>

\* Lines 119-123: target, others, perms
Permutate ==
    /\ pc = "permutate"
    /\ \E target \in {self.items[Len(self.items)]},
          others \in {SubSeq(self.items, 1, Len(self.items) - 1)} :
          self' = [self EXCEPT !.target = target,
                               !.others = others,
                               !.perms = permutate(self.base, others, target)]
    /\ pc' = "walk"
    /\ UNCHANGED <<args, exc, runs>>

\* Lines 126-130: walk each chain, sort the paths, initialise the selections
Walk ==
    /\ pc = "walk"
    /\ \E walked \in {[i \in 1..Len(self.perms) |-> Path(self.perms[i])]} :
          \E paths \in {SortedByLight(walked)} :
             self' = [self EXCEPT !.paths = paths,
                                  !.best_light = paths[1],
                                  !.least_cost = paths[1],
                                  !.k = 1]
    /\ pc' = "scan"
    /\ UNCHANGED <<args, exc, runs>>

\* Lines 133-146: one iteration of the loop; __init__ returns after the last
Scan ==
    /\ pc = "scan"
    /\ \E path \in {self.paths[self.k]} :
          self' = [self EXCEPT
                      !.best_light = IF BetterLight(path, self.best_light)
                                     THEN path ELSE self.best_light,
                      !.least_cost = IF LesserCost(path, self.least_cost)
                                     THEN path ELSE self.least_cost,
                      !.k = self.k + 1]
    /\ pc' = IF self.k = Len(self.paths) THEN "returned" ELSE "scan"
    /\ UNCHANGED <<args, exc, runs>>

(***************************************************************************)
(* Spec: one call Paths(base, items) with the command line's arguments.    *)
(***************************************************************************)
Init ==
    /\ pc = "Paths"
    /\ args \in [base : Tokens, items : ItemLists]
    /\ self = Blank
    /\ exc = None
    /\ runs = <<>>

Next ==
    \/ NewBase
    \/ Uniquify
    \/ Permutate
    \/ Walk
    \/ Scan

Spec == Init /\ [][Next]_vars

(***************************************************************************)
(* SpecPair: the call Paths(base, items) and then Paths(base, again), two  *)
(* item lists that hold the same tokens, in any order and any number of    *)
(* times.                                                                  *)
(***************************************************************************)
\* What a finished call leaves: the exception, or the object's fields.
Outcome ==
    [pc |-> pc, exc |-> exc, base |-> self.base, items |-> self.items,
     target |-> self.target, others |-> self.others, paths |-> self.paths,
     best_light |-> self.best_light, least_cost |-> self.least_cost]

InitPair ==
    /\ pc = "Paths"
    /\ args \in {a \in [base : Tokens,
                        items : SeqsUpTo(Tokens, MaxPairItems) \ {<<>>},
                        again : SeqsUpTo(Tokens, MaxPairItems) \ {<<>>}] :
                    Range(a.items) = Range(a.again)}
    /\ self = Blank
    /\ exc = None
    /\ runs = <<>>

\* The second call, with the other list.
Again ==
    /\ Finished
    /\ runs = <<>>
    /\ runs' = <<Outcome>>
    /\ args' = [args EXCEPT !.items = args.again]
    /\ pc' = "Paths"
    /\ self' = Blank
    /\ exc' = None

NextPair ==
    \/ NewBase
    \/ Uniquify
    \/ Permutate
    \/ Walk
    \/ Scan
    \/ Again

SpecPair == InitPair /\ [][NextPair]_vars

(***************************************************************************)
(* Properties.                                                             *)
(***************************************************************************)
PathSet == Range(self.paths)

\* C1: after Paths(base, items) returns, best_light is one of paths, no
\* path has more light, and no path of the same light costs less.
C1_BestLight ==
    pc = "returned" =>
       /\ self.best_light \in PathSet
       /\ \A p \in PathSet :
             /\ self.best_light.light >= p.light
             /\ p.light = self.best_light.light
                   => self.best_light.cost <= p.cost

\* A returned call in which a dearer path reaches the best light too, and
\* another path reaches less.
C1_Witness ==
    /\ pc = "returned"
    /\ \E p \in PathSet :
          p.light = self.best_light.light /\ p.cost > self.best_light.cost
    /\ \E p \in PathSet : p.light < self.best_light.light

\* C2: after Paths(base, items) returns, least_cost is one of paths, no
\* path costs less, and no path of the same cost has more light.
C2_LeastCost ==
    pc = "returned" =>
       /\ self.least_cost \in PathSet
       /\ \A p \in PathSet :
             /\ self.least_cost.cost <= p.cost
             /\ p.cost = self.least_cost.cost
                   => self.least_cost.light >= p.light

\* A returned call of four paths whose first path (the least light) is
\* not the cheapest: the loop had to replace least_cost.
C2_Witness ==
    /\ pc = "returned"
    /\ Len(self.paths) = 4
    /\ self.least_cost # self.paths[1]
    /\ self.paths[1].cost > self.least_cost.cost

\* The elements of mid at the positions I, in the order of mid.
SubSequence(mid, I) ==
    [j \in 1..Cardinality(I) |->
        mid[CHOOSE i \in I : Cardinality({x \in I : x <= i}) = j]]

ChainOver(I) == <<self.base>> \o SubSequence(self.others, I) \o <<self.target>>

Occurrences(s, c) == Cardinality({k \in DOMAIN s : s[k] = c})

\* C3: permutate(base, others, target) lists the chain
\* [base] + S + [target] once for each sub-sequence S of others (each
\* choice of positions, every size from 0 to len(others)) and nothing
\* else; so a returned call has 2^len(others) paths, the chain
\* [base, target] among them.
C3_Permutate ==
    /\ pc \in {"walk", "scan", "returned"} =>
          LET positions == SUBSET DOMAIN self.others
          IN  /\ \A k \in DOMAIN self.perms :
                    \E I \in positions : self.perms[k] = ChainOver(I)
              /\ \A I \in positions :
                    Occurrences(self.perms, ChainOver(I))
                       = Cardinality({J \in positions :
                                         ChainOver(J) = ChainOver(I)})
    /\ pc = "returned" =>
          /\ Len(self.paths) = Pow2(Len(self.others))
          /\ \E p \in PathSet : p.steps = <<self.base, self.target>>
          /\ \A c \in Range(self.perms) :
                Occurrences(self.perms, c)
                   = Cardinality({k \in DOMAIN self.paths :
                                     self.paths[k].steps = c})

\* A returned call with two items between base and target: four chains,
\* the one through both items among them.
C3_Witness ==
    /\ pc = "returned"
    /\ Len(self.others) = 2
    /\ \E p \in PathSet : Len(p.steps) = 4

Parseable == \A t \in {args.base} \cup Range(args.items) : ~Raised(Item(t))

NoneGreater ==
    \A t \in Range(args.items) :
       Item(t).item.light <= Item(args.base).item.light

DomainError ==
    pc = "raised" /\ exc.type = "Base item is highest light level"

C6_Items ==
    pc = "returned" =>
       /\ NonDecreasing(self.items)
       /\ \A i, j \in DOMAIN self.items :
             i # j => self.items[i].light # self.items[j].light
       /\ \A i \in DOMAIN self.items : self.items[i].light > self.base.light
       /\ \A t \in Range(args.items) :
             LET it == Item(t)
             IN  ~Raised(it) /\ it.item.light > self.base.light
                    => \E i \in DOMAIN self.items :
                          self.items[i].light = it.item.light

Summary(path) == [steps |-> path.steps, light |-> path.light, cost |-> path.cost]

\* C9: two calls with the same base and item lists holding the same tokens
\* end alike: the same target, items, set of paths (steps, light, cost),
\* best_light and least_cost.
C9_SameResult ==
    Finished /\ runs # <<>> =>
       /\ pc = runs[1].pc
       /\ exc = runs[1].exc
       /\ pc = "returned" =>
             /\ self.target = runs[1].target
             /\ self.items = runs[1].items
             /\ {Summary(p) : p \in PathSet}
                   = {Summary(p) : p \in Range(runs[1].paths)}
             /\ Summary(self.best_light) = Summary(runs[1].best_light)
             /\ Summary(self.least_cost) = Summary(runs[1].least_cost)

\* n/d rounded to the nearest integer, an exact half to the even one.
HalfEven(n, d) ==
    LET q == n \div d
        r == n % d
    IN  IF 2 * r > d \/ (2 * r = d /\ q % 2 = 1) THEN q + 1 ELSE q

\* C4: infuse(base, target).light is target.light when
\* diff <= 6 - (2 if base is exotic) + (1 if target is exotic), and
\* otherwise base.light + diff * 7/10 (exotic base) or diff * 8/10,
\* rounded to the nearest integer, exact halves to the even integer.
C4_InfuseLight ==
    pc = "returned" =>
       LET diff == args.target.light - args.base.light
           threshold == (6 - (IF args.base.quality = exotic THEN 2 ELSE 0))
                           + (IF args.target.quality = exotic THEN 1 ELSE 0)
           tenths == IF args.base.quality = exotic THEN 7 ELSE 8
       IN  self.light = IF diff <= threshold THEN args.target.light
                        ELSE args.base.light + HalfEven(diff * tenths, 10)

\* C5: every item the fold of Path(steps) produces, the final item
\* included, has the quality of steps[0]; for two steps this is
\* infuse(base, target) having base's quality.
C5_BaseRarity ==
    pc = "returned" =>
       /\ self.item.quality = args[1].quality
       /\ \A k \in 2..Len(args) :
             Reduce(args[1], SubSeq(args, 2, k)).quality = args[1].quality

\* infuse as the specification words it: the result always has base's
\* quality.
infuseBaseRarity(base, target) ==
    IF target.light - base.light <= CloseRange(base, target)
    THEN ItemOf(target.light, base.quality)
    ELSE Penalty(base, target)

RECURSIVE ReduceBaseRarity(_, _)
ReduceBaseRarity(acc, rest) ==
    IF rest = <<>> THEN acc
    ELSE ReduceBaseRarity(infuseBaseRarity(acc, rest[1]), Tail(rest))

\* C10: for steps non-decreasing in light, Path(steps).light is the light
\* the fold gives when every infusion result keeps its base's quality.
C10_RarityIrrelevant ==
    pc = "returned" /\ NonDecreasing(args) =>
       self.light = ReduceBaseRarity(args[1], Tail(args)).light

Sigil(token) == token # <<>> /\ token[1] \in {"+", "-"}

Digits(token) == IF Sigil(token) THEN Tail(token) ELSE token

WellFormed(token) ==
    /\ Digits(token) # <<>>
    /\ \A i \in DOMAIN Digits(token) : Digits(token)[i] \in DigitChars

\* C7: Item(token) returns exactly for an optional single sigil before a
\* non-empty digit string, with the sigil's quality ('+' exotic, '-' rare,
\* none legendary) and the digits' value as light, which is >= 0; any
\* other token raises the "Invalid item" error naming the text after the
\* sigil.
C7_ItemParse ==
    pc # "Item" =>
       IF WellFormed(args)
       THEN /\ pc = "returned"
            /\ self.quality = (IF ~Sigil(args) THEN legendary
                               ELSE IF args[1] = "+" THEN exotic ELSE rare)
            /\ self.light = DecimalValue(Digits(args), 0)
            /\ self.light >= 0
       ELSE /\ pc = "raised"
            /\ exc.type = "Invalid item"
            /\ exc.offending = Repr(Digits(args))

=============================================================================
